---- MODULE Spec2Model ----
(***************************************************************************)
(* A model of juna_geotagger: GPX track loading (parse_gpx_files), GPS     *)
(* interpolation (interpolate_gps), the scan classification                *)
(* (async_scan_photos), the CLI batch loop (geotag_photos.main) and the    *)
(* web endpoints (api_auto_geotag, api_batch_manual_geotag,                *)
(* api_manual_geotag).                                                     *)
(*                                                                         *)
(* Times are integer seconds on the UTC axis.  Latitude, longitude and     *)
(* elevation are exact fractions [num, den] in lowest terms, standing for  *)
(* the program's floats; the arithmetic of interpolate_gps is carried out  *)
(* on them operation by operation.                                         *)
(***************************************************************************)
EXTENDS Integers, Sequences, FiniteSets, TLC

VARIABLES
    trackpoints,     \* the track timeline (list of trackpoint dicts)
    photo_time,      \* interpolate_gps: the query instant
    max_gap,         \* max_gap_seconds / --max-gap / req.max_gap
    interp_result,   \* interpolate_gps: the returned dict, None, or not yet called
    gpx_dir,         \* parse_gpx_files: the *.gpx files of the directory, by name
    pc,              \* the position of the running program
    mode,            \* the entry point that runs: "scan", "cli", "auto", "batch_manual"
    env,             \* photo_dir_ok, gpx_dir_ok (os.path.isdir), exiftool_ok, dry_run
    disk,            \* the photo files: name -> where it is and its EXIF fields
    request,         \* req.filenames / req.items of the web request
    tasks,           \* the per-item coroutines handed to asyncio.gather, each at its await
    response,        \* what the web handler returned: its HTTP status, 0 while pending
    cli,             \* main(): image_files, loop index, stats, no_gps_files
    manual,          \* a POST /api/manual-geotag the server handles meanwhile
    log              \* history: metadata reads, interpolate_gps calls, GPS writes, moves

run_vars == <<mode, env, disk, request, tasks, response, cli, manual, log>>

vars == <<trackpoints, photo_time, max_gap, interp_result, gpx_dir, pc, run_vars>>

----------------------------------------------------------------------------
(* Bounds of the model *)

\* longest timeline drawn for interpolate_gps
MaxLen == 3
\* trackpoint times are drawn from 0..MaxTime
MaxTime == 4
\* gap tolerances are drawn from -1..MaxGap
MaxGap == 3
\* most points (track points and waypoints) in a drawn gpx directory
MaxPts == 3

----------------------------------------------------------------------------
(* Values *)

\* Python's None
None == [none |-> TRUE]

\* the state of a result variable before the call has returned
NotCalled == [not_called |-> TRUE]

\* no manual-geotag request
NoManual == [pc |-> "none", item |-> None, proc |-> None, response |-> [status |-> 0]]

\* the run variables while a single function is studied on its own
Idle ==
    /\ manual = NoManual
    /\ mode = "none"
    /\ env = [photo_dir_ok |-> FALSE, gpx_dir_ok |-> FALSE,
              exiftool_ok |-> FALSE, dry_run |-> FALSE]
    /\ disk = <<>>
    /\ request = <<>>
    /\ tasks = <<>>
    /\ response = [status |-> 0]
    /\ cli = <<>>
    /\ log = <<>>

Abs(n) == IF n < 0 THEN -n ELSE n

RECURSIVE Gcd(_, _)
Gcd(a, b) == IF b = 0 THEN a ELSE Gcd(b, a % b)

\* the number n/d (d # 0), in lowest terms with a positive denominator
Frac(n, d) ==
    LET g == Gcd(Abs(n), Abs(d))
        s == IF d < 0 THEN -1 ELSE 1
    IN  [num |-> (s * n) \div g, den |-> (s * d) \div g]

FracAdd(x, y) == Frac(x.num * y.den + y.num * x.den, x.den * y.den)
FracSub(x, y) == Frac(x.num * y.den - y.num * x.den, x.den * y.den)
FracMul(x, y) == Frac(x.num * y.num, x.den * y.den)

\* the positions a trackpoint may carry
PositionSet ==
    { [lat |-> Frac(10, 1), lon |-> Frac(20, 1), ele |-> Frac(0, 1)],
      [lat |-> Frac(13, 1), lon |-> Frac(14, 1), ele |-> Frac(5, 1)],
      [lat |-> Frac(-4, 1), lon |-> Frac(41, 2), ele |-> Frac(-3, 1)] }

TrackPointSet ==
    { [time |-> t, lat |-> p.lat, lon |-> p.lon, ele |-> p.ele] :
        t \in 0..MaxTime, p \in PositionSet }

IsSorted(tl) == \A i \in 1..Len(tl) - 1 : tl[i].time <= tl[i + 1].time

SortedTimelines ==
    { tl \in UNION { [1..n -> TrackPointSet] : n \in 0..MaxLen } : IsSorted(tl) }

QueryTimes == -2..MaxTime + 2

GapValues == -1..MaxGap

----------------------------------------------------------------------------
(* interpolate_gps *)

\* bisect.bisect_left(a, x): the loop of the standard library, 0-based result
RECURSIVE BisectLoop(_, _, _, _)
BisectLoop(a, x, lo, hi) ==
    IF lo < hi
    THEN LET mid == (lo + hi) \div 2
         IN  IF a[mid + 1] < x
             THEN BisectLoop(a, x, mid + 1, hi)
             ELSE BisectLoop(a, x, lo, mid)
    ELSE lo

\* a variant that inserts after equal elements (bisect_right)
RECURSIVE BisectRightLoop(_, _, _, _)
BisectRightLoop(a, x, lo, hi) ==
    IF lo < hi
    THEN LET mid == (lo + hi) \div 2
         IN  IF x < a[mid + 1]
             THEN BisectRightLoop(a, x, lo, mid)
             ELSE BisectRightLoop(a, x, mid + 1, hi)
    ELSE lo

bisect_right(a, x) == BisectRightLoop(a, x, 0, Len(a))

bisect_left(a, x) == BisectLoop(a, x, 0, Len(a))

\* {"lat": p["lat"], "lon": p["lon"], "ele": p["ele"]}
PosOf(p) == [lat |-> p.lat, lon |-> p.lon, ele |-> p.ele]

\* a variant that starts the line at the later point
LerpFromAfter(before, after, ratio) ==
    FracAdd(after, FracMul(FracSub(after, before), ratio))

\* before + (after - before) * ratio
Lerp(before, after, ratio) == FracAdd(before, FracMul(FracSub(after, before), ratio))

\* a variant that tests the distance from the query to the nearer bracket end
InterpolateInteriorNearest(tps, idx, pt, gap) ==
    LET before    == tps[idx]
        after     == tps[idx + 1]
        total_gap == after.time - before.time
        elapsed   == pt - before.time
        nearest   == IF elapsed <= total_gap - elapsed THEN elapsed ELSE total_gap - elapsed
    IN  IF nearest > gap THEN None
        ELSE IF total_gap = 0 THEN PosOf(before)
        ELSE LET ratio == Frac(elapsed, total_gap)
             IN  [lat |-> Lerp(before.lat, after.lat, ratio),
                  lon |-> Lerp(before.lon, after.lon, ratio),
                  ele |-> Lerp(before.ele, after.ele, ratio)]

\* lines 273-289: the query lies inside the bracket tps[idx-1], tps[idx] (idx 0-based)
InterpolateInterior(tps, idx, pt, gap) ==
    LET before    == tps[idx]
        after     == tps[idx + 1]
        total_gap == after.time - before.time
    IN  IF total_gap > gap THEN None
        ELSE IF total_gap = 0 THEN PosOf(before)
        ELSE LET elapsed == pt - before.time
                 ratio   == Frac(elapsed, total_gap)
             IN  [lat |-> Lerp(before.lat, after.lat, ratio),
                  lon |-> Lerp(before.lon, after.lon, ratio),
                  ele |-> Lerp(before.ele, after.ele, ratio)]

\* a variant whose edge test is turned around
InterpolateEdgeReversed(tps, idx, pt, gap) ==
    IF idx = 0
    THEN IF tps[1].time - pt >= gap THEN PosOf(tps[1]) ELSE None
    ELSE IF pt - tps[Len(tps)].time >= gap THEN PosOf(tps[Len(tps)]) ELSE None

\* a variant whose edge tolerance is exclusive
InterpolateEdgeStrict(tps, idx, pt, gap) ==
    IF idx = 0
    THEN IF tps[1].time - pt < gap THEN PosOf(tps[1]) ELSE None
    ELSE IF pt - tps[Len(tps)].time < gap THEN PosOf(tps[Len(tps)]) ELSE None

\* lines 259-271: the query lies before the first or after the last point
InterpolateEdge(tps, idx, pt, gap) ==
    IF idx = 0
    THEN IF tps[1].time - pt <= gap THEN PosOf(tps[1]) ELSE None
    ELSE IF pt - tps[Len(tps)].time <= gap THEN PosOf(tps[Len(tps)]) ELSE None

interpolate_gps(tps, pt, gap) ==
    IF Len(tps) = 0 THEN None
    ELSE LET times == [i \in 1..Len(tps) |-> tps[i].time]
             idx   == bisect_left(times, pt)
         IN  IF idx < Len(tps) /\ tps[idx + 1].time = pt
             THEN PosOf(tps[idx + 1])
             ELSE IF idx = 0 \/ idx >= Len(tps)
             THEN InterpolateEdge(tps, idx, pt, gap)
             ELSE InterpolateInterior(tps, idx, pt, gap)

----------------------------------------------------------------------------
(* Specification of interpolate_gps: any sorted timeline, query and gap *)

InitInterp ==
    /\ trackpoints \in SortedTimelines
    /\ photo_time \in QueryTimes
    /\ max_gap \in GapValues
    /\ interp_result = NotCalled
    /\ gpx_dir = <<>>
    /\ pc = "interpolate"
    /\ Idle

CallInterpolate ==
    /\ interp_result = NotCalled
    /\ interp_result' = interpolate_gps(trackpoints, photo_time, max_gap)
    /\ UNCHANGED <<trackpoints, photo_time, max_gap, gpx_dir, pc, run_vars>>

NextInterp == CallInterpolate

SpecInterp == InitInterp /\ [][NextInterp]_vars

----------------------------------------------------------------------------
(* parse_gpx_files *)

\* the names of the *.gpx files a directory may hold ("1.gpx", "2.gpx")
FileIds == {1, 2}

\* a point as gpxpy delivers it: point.time is None, a naive datetime or an
\* aware one (local wall-clock seconds and UTC offset); point.elevation is
\* None or a number
RawShapeSet ==
    { [time |-> None, elevation |-> Frac(7, 2)],
      [time |-> [aware |-> FALSE, local |-> 1, utcoffset |-> 0], elevation |-> Frac(7, 2)],
      [time |-> [aware |-> TRUE,  local |-> 2, utcoffset |-> 2], elevation |-> None],
      [time |-> [aware |-> TRUE,  local |-> 1, utcoffset |-> -1], elevation |-> Frac(-3, 1)] }

\* pt_time.replace(tzinfo=utc) for a naive time, pt_time.astimezone(utc) otherwise
ToUtc(t) == IF t.aware THEN t.local - t.utcoffset ELSE t.local

\* the dict appended for a point that has a time
TrackPointOf(point) ==
    [time |-> ToUtc(point.time),
     lat  |-> point.latitude,
     lon  |-> point.longitude,
     ele  |-> IF point.elevation # None THEN point.elevation ELSE Frac(0, 1)]

\* the loop over a list of points: those without a time are skipped
RECURSIVE AppendPoints(_, _)
AppendPoints(acc, points) ==
    IF points = <<>> THEN acc
    ELSE IF Head(points).time = None
         THEN AppendPoints(acc, Tail(points))
         ELSE AppendPoints(Append(acc, TrackPointOf(Head(points))), Tail(points))

RECURSIVE AppendSegments(_, _)
AppendSegments(acc, segments) ==
    IF segments = <<>> THEN acc
    ELSE AppendSegments(AppendPoints(acc, Head(segments).points), Tail(segments))

RECURSIVE AppendTracks(_, _)
AppendTracks(acc, tracks) ==
    IF tracks = <<>> THEN acc
    ELSE AppendTracks(AppendSegments(acc, Head(tracks).segments), Tail(tracks))

\* sorted(glob.glob("*.gpx")): the names in ascending order
RECURSIVE SortedNames(_)
SortedNames(S) ==
    IF S = {} THEN <<>>
    ELSE LET least == CHOOSE x \in S : \A y \in S : x <= y
         IN  <<least>> \o SortedNames(S \ {least})

\* the loop over the files: a file that fails to parse is skipped whole
RECURSIVE ParseFiles(_, _, _)
ParseFiles(acc, dir, names) ==
    IF names = <<>> THEN acc
    ELSE LET gpx == dir[Head(names)]
         IN  IF ~gpx.parses
             THEN ParseFiles(acc, dir, Tail(names))
             ELSE ParseFiles(AppendPoints(AppendTracks(acc, gpx.tracks), gpx.waypoints),
                             dir, Tail(names))

\* list.sort(key=time): stable, by insertion after the last element not greater
RECURSIVE InsertByTime(_, _)
InsertByTime(sorted, p) ==
    IF sorted = <<>> THEN <<p>>
    ELSE IF sorted[Len(sorted)].time <= p.time
         THEN Append(sorted, p)
         ELSE Append(InsertByTime(SubSeq(sorted, 1, Len(sorted) - 1), p),
                     sorted[Len(sorted)])

RECURSIVE SortByTime(_)
SortByTime(list) ==
    IF list = <<>> THEN <<>>
    ELSE InsertByTime(SortByTime(SubSeq(list, 1, Len(list) - 1)), list[Len(list)])

\* a variant that returns the points in file order
parse_gpx_files_unsorted(dir) ==
    ParseFiles(<<>>, dir, SortedNames(DOMAIN dir))

parse_gpx_files(dir) ==
    LET gpx_files == SortedNames(DOMAIN dir)
    IN  IF gpx_files = <<>> THEN <<>>
        ELSE SortByTime(ParseFiles(<<>>, dir, gpx_files))

----------------------------------------------------------------------------
(* Specification of parse_gpx_files: any directory of at most MaxPts points *)

\* a directory is drawn as a list of entries, each one point of one file;
\* the entries are grouped by file, track points before waypoints (the order
\* of the groups carries no information; the order inside a group does)
GroupSet == { [file |-> f, kind |-> k] : f \in FileIds, k \in {"trkpt", "wpt"} }

GroupKey(g) == 2 * g.file + (IF g.kind = "wpt" THEN 1 ELSE 0)

Listings ==
    UNION { { [i \in 1..n |-> [file |-> gs[i].file, kind |-> gs[i].kind,
                               time |-> sh[i].time, elevation |-> sh[i].elevation]] :
                gs \in { g \in [1..n -> GroupSet] :
                            \A i \in 1..n - 1 : GroupKey(g[i]) <= GroupKey(g[i + 1]) },
                sh \in [1..n -> RawShapeSet] } : n \in 0..MaxPts }

\* the i-th point of a listing; its latitude and longitude identify it
RawPointAt(l, i) ==
    [time |-> l[i].time, latitude |-> Frac(i, 1), longitude |-> Frac(-i, 2),
     elevation |-> l[i].elevation]

RawPointsOf(l, f, kind) ==
    LET idxs == SortedNames({ i \in 1..Len(l) : l[i].file = f /\ l[i].kind = kind })
    IN  [k \in 1..Len(idxs) |-> RawPointAt(l, idxs[k])]

\* the track points of a file laid out in tracks and segments: the first two
\* points in two segments of one track, the rest in a second track
TracksOf(points) ==
    IF Len(points) = 0 THEN <<>>
    ELSE IF Len(points) = 1 THEN << [segments |-> << [points |-> points] >>] >>
    ELSE LET first == [segments |-> << [points |-> <<points[1]>>],
                                       [points |-> <<points[2]>>] >>]
         IN  IF Len(points) = 2 THEN <<first>>
             ELSE << first,
                     [segments |-> << [points |-> SubSeq(points, 3, Len(points))] >>] >>

DirectoryOf(l, status) ==
    [f \in { g \in FileIds : status[g] # "absent" } |->
        [parses    |-> status[f] = "ok",
         tracks    |-> TracksOf(RawPointsOf(l, f, "trkpt")),
         waypoints |-> RawPointsOf(l, f, "wpt")]]

InitLoader ==
    /\ \E l \in Listings, status \in [FileIds -> {"absent", "broken", "ok"}] :
        /\ \A i \in 1..Len(l) : status[l[i].file] # "absent"
        /\ gpx_dir = DirectoryOf(l, status)
    /\ trackpoints = <<>>
    /\ photo_time = 0
    /\ max_gap = 0
    /\ interp_result = NotCalled
    /\ pc = "load"
    /\ Idle

CallParseGpxFiles ==
    /\ pc = "load"
    /\ trackpoints' = parse_gpx_files(gpx_dir)
    /\ pc' = "loaded"
    /\ UNCHANGED <<photo_time, max_gap, interp_result, gpx_dir, run_vars>>

NextLoader == CallParseGpxFiles

SpecLoader == InitLoader /\ [][NextLoader]_vars

----------------------------------------------------------------------------
(* The metadata gateway: exiftool reads and writes *)

\* the UTC offset of the host's local timezone (photo_time.astimezone())
HostUtcOffset == -1

\* a GPS field of exiftool's JSON that float() rejects
Garbled == [garbled |-> TRUE]

FracAbs(x) == [num |-> Abs(x.num), den |-> x.den]
FracNeg(x) == [num |-> -x.num, den |-> x.den]

\* _parse_exiftool_datetime: None, or the capture instant on the UTC axis.
\* A date string is "zero" (0000:00:00 00:00:00), "naive" (one of the two
\* formats without offset), "aware" (the %z format), "subsec" (parsed after
\* cutting at the first dot) or "unparseable"; an offset string parses or not.
parse_exiftool_datetime(info) ==
    LET date_str   == IF info.DateTimeOriginal # None
                      THEN info.DateTimeOriginal ELSE info.CreateDate
        offset_str == IF info.OffsetTimeOriginal # None
                      THEN info.OffsetTimeOriginal ELSE info.OffsetTime
    IN  IF date_str = None THEN None
        ELSE IF date_str.kind \in {"zero", "unparseable"} THEN None
        ELSE IF date_str.kind = "aware"
             THEN [utc |-> date_str.local - date_str.utcoffset]
        ELSE IF offset_str # None /\ offset_str.valid
             THEN [utc |-> date_str.local - offset_str.seconds]
        ELSE [utc |-> date_str.local - HostUtcOffset]

\* photo_time.isoformat() and datetime.fromisoformat(): the text of an aware
\* UTC datetime and its parse
isoformat(t) == [iso |-> t.utc]
fromisoformat(text) == text.iso

\* result_dict as first built: everything absent
AllAbsent == [time |-> None, has_gps |-> FALSE, lat |-> None, lon |-> None]

\* the body of the try block once data[0] is at hand; an exception of
\* float() leaves result_dict as it was filled until then
ReadInfo(info) ==
    LET gps_lat == info.GPSLatitude
        gps_lon == info.GPSLongitude
        has_gps == gps_lat # None /\ gps_lon # None
    IN  IF has_gps /\ gps_lat = Garbled
        THEN [AllAbsent EXCEPT !.has_gps = TRUE]
        ELSE IF has_gps /\ gps_lon = Garbled
        THEN [AllAbsent EXCEPT !.has_gps = TRUE, !.lat = gps_lat]
        ELSE LET t == parse_exiftool_datetime(info)
             IN  [time    |-> IF t # None THEN isoformat(t) ELSE None,
                  has_gps |-> has_gps,
                  lat     |-> IF has_gps THEN gps_lat ELSE None,
                  lon     |-> IF has_gps THEN gps_lon ELSE None]

\* get_photo_metadata on one run of exiftool: the process did not start
\* (FileNotFoundError), exited non-zero (CalledProcessError), or printed
\* malformed JSON, an empty list or the file's fields
get_photo_metadata(run) ==
    IF run.exec # "ok" THEN AllAbsent
    ELSE IF run.stdout.kind \in {"malformed", "empty"} THEN AllAbsent
    ELSE ReadInfo(run.stdout.info)

\* async_get_photo_metadata: the same with the return code tested
async_get_photo_metadata(run) ==
    IF run.exec = "not_started" THEN AllAbsent
    ELSE IF run.exec = "nonzero" THEN AllAbsent
    ELSE IF run.stdout.kind \in {"malformed", "empty"} THEN AllAbsent
    ELSE ReadInfo(run.stdout.info)

\* the runs exiftool may make of a read of a file with these fields, once
\* the process has started
ReadRuns(info) ==
    { [exec |-> "ok", stdout |-> [kind |-> "json", info |-> info]],
      [exec |-> "ok", stdout |-> [kind |-> "malformed"]],
      [exec |-> "ok", stdout |-> [kind |-> "empty"]],
      [exec |-> "nonzero", stdout |-> [kind |-> "empty"]] }

NotStarted == [exec |-> "not_started", stdout |-> [kind |-> "empty"]]

\* data[0] of a read: the JSON object the read parsed, None when the run
\* gave none (not started, non-zero exit, malformed or empty output)
ReadSeen(run) ==
    IF run.exec = "ok" /\ run.stdout.kind = "json" THEN run.stdout.info ELSE None

\* whether a new exiftool process starts: never when the tool is not
\* installed, and otherwise the spawn may still fail
SpawnOutcomes == IF env.exiftool_ok THEN {"started", "not_started"} ELSE {"not_started"}

\* the arguments of the write: magnitudes and hemisphere references
GpsWriteArgs(lat, lon, ele) ==
    [GPSLatitude     |-> FracAbs(lat),
     GPSLatitudeRef  |-> IF lat.num >= 0 THEN "N" ELSE "S",
     GPSLongitude    |-> FracAbs(lon),
     GPSLongitudeRef |-> IF lon.num >= 0 THEN "E" ELSE "W",
     GPSAltitude     |-> FracAbs(ele),
     GPSAltitudeRef  |-> IF ele.num >= 0 THEN 0 ELSE 1]

\* the fields of a file after exiftool has applied the arguments (as a later
\* read with -n reports them: signed degrees)
ApplyGps(info, args) ==
    [info EXCEPT
        !.GPSLatitude  = IF args.GPSLatitudeRef = "S"
                         THEN FracNeg(args.GPSLatitude) ELSE args.GPSLatitude,
        !.GPSLongitude = IF args.GPSLongitudeRef = "W"
                         THEN FracNeg(args.GPSLongitude) ELSE args.GPSLongitude]

\* write_gps_with_exiftool: True, False (CalledProcessError), or the
\* exception subprocess.run raises when the process does not start
write_gps_with_exiftool(exec) ==
    IF exec = "ok" THEN [raised |-> FALSE, ret |-> TRUE]
    ELSE IF exec = "nonzero" THEN [raised |-> FALSE, ret |-> FALSE]
    ELSE [raised |-> TRUE, ret |-> FALSE]

\* async_write_gps after the process has started: proc.returncode == 0
async_write_gps(exec) == exec = "ok"

----------------------------------------------------------------------------
(* The runs: scan, CLI, auto-geotag, batch-manual-geotag, manual-geotag *)

\* most items in a web request
MaxReq == 2

\* os.listdir(photo_dir), sorted: the image files a photo directory may hold
PhotoList == <<"a.jpg", "b.jpg">>

PhotoNames == { PhotoList[i] : i \in 1..Len(PhotoList) }

NoExif ==
    [DateTimeOriginal |-> None, CreateDate |-> None, OffsetTimeOriginal |-> None,
     OffsetTime |-> None, GPSLatitude |-> None, GPSLongitude |-> None]

\* the fields a photo may carry: nothing; a time (CreateDate in host local
\* time); GPS only; GPS and a time (DateTimeOriginal with its offset).
\* Both times are the instant 1 on the UTC axis.
ExifChoices ==
    { NoExif,
      [NoExif EXCEPT !.CreateDate = [kind |-> "naive", local |-> 0, utcoffset |-> 0]],
      [NoExif EXCEPT !.GPSLatitude = Frac(5, 1), !.GPSLongitude = Frac(-6, 1)],
      [NoExif EXCEPT !.GPSLatitude = Frac(5, 1), !.GPSLongitude = Frac(-6, 1),
                     !.DateTimeOriginal = [kind |-> "naive", local |-> 3, utcoffset |-> 0],
                     !.OffsetTimeOriginal = [valid |-> TRUE, seconds |-> 2]] }

\* a photo file: where it is ("absent", "photo_dir", "no_gps") and its fields
PhotoFiles ==
    { [where |-> "absent", info |-> NoExif] }
        \cup { [where |-> "photo_dir", info |-> x] : x \in ExifChoices }

\* a gpx directory with a track point at UTC 0 and a waypoint at UTC 2
TrackListing ==
    << [file |-> 1, kind |-> "trkpt", elevation |-> None,
        time |-> [aware |-> TRUE, local |-> 2, utcoffset |-> 2]],
       [file |-> 1, kind |-> "wpt", elevation |-> Frac(-3, 1),
        time |-> [aware |-> TRUE, local |-> 1, utcoffset |-> -1]] >>

GpxChoices ==
    { DirectoryOf(<<>>, [f \in FileIds |-> "absent"]),
      DirectoryOf(TrackListing, [f \in FileIds |-> IF f = 1 THEN "ok" ELSE "absent"]),
      DirectoryOf(TrackListing, [f \in FileIds |-> IF f = 1 THEN "broken" ELSE "absent"]) }

RunGaps == {1, 3}

\* the position a manual request asks for
ManualItems ==
    { [filename |-> n, lat |-> Frac(-7, 1), lon |-> Frac(8, 1), ele |-> Frac(0, 1)] :
        n \in PhotoNames }

\* the single manual-geotag request names the first photo
ManualRequests == { item \in ManualItems : item.filename = PhotoList[1] }

SeqsUpTo(S, n) == UNION { [1..k -> S] : k \in 0..n }

\* the number of scan requests made one after the other
MaxScans == 2

\* log.had_gps: the files that carry GPS when the run begins;
\* log.manual: the files the manual-geotag request has written;
\* log.scan_count: the scans that have returned; log.scans: the first and the
\* latest of them, each with what exiftool did for every photo and the
\* photos of the answer
EmptyLog ==
    [metas |-> {}, interp |-> {}, write_calls |-> {}, written |-> {},
     moves |-> {}, mkdir |-> FALSE, had_gps |-> {}, manual |-> {},
     scans |-> <<>>, scan_count |-> 0]

EmptyStats ==
    [already_gps |-> 0, tagged |-> 0, no_datetime |-> 0, no_match |-> 0, errors |-> 0]

\* the arguments and the environment of a run; a batch-manual request reads
\* neither the tracks, nor a gap, nor a date of a photo, which are left
\* empty, at one value and absent
InitRun ==
    /\ mode \in {"scan", "cli", "auto", "batch_manual"}
    /\ \E photo_dir_ok \in BOOLEAN, gpx_dir_ok \in BOOLEAN,
          exiftool_ok \in BOOLEAN, dry_run \in BOOLEAN :
        /\ gpx_dir_ok => photo_dir_ok
        /\ dry_run => mode = "cli"
        /\ env = [photo_dir_ok |-> photo_dir_ok, gpx_dir_ok |-> gpx_dir_ok,
                  exiftool_ok |-> exiftool_ok, dry_run |-> dry_run]
    /\ disk \in [PhotoNames -> PhotoFiles]
    /\ ~env.photo_dir_ok => \A n \in PhotoNames : disk[n].where = "absent"
    /\ gpx_dir \in GpxChoices
    /\ ~env.gpx_dir_ok => gpx_dir = <<>>
    /\ max_gap \in RunGaps
    /\ mode = "batch_manual" =>
        /\ ~env.gpx_dir_ok /\ gpx_dir = <<>> /\ max_gap = 1
        /\ \A n \in PhotoNames : /\ disk[n].info.DateTimeOriginal = None
                                  /\ disk[n].info.CreateDate = None
    /\ request \in CASE mode = "auto" -> SeqsUpTo(PhotoNames, MaxReq)
                     [] mode = "batch_manual" -> SeqsUpTo(ManualItems, MaxReq)
                     [] OTHER -> {<<>>}
    /\ tasks = <<>>
    /\ response = [status |-> 0]
    /\ cli = [image_files |-> <<>>, i |-> 1, stats |-> EmptyStats, no_gps_files |-> <<>>]
    /\ manual \in IF mode = "cli" THEN {NoManual}
                  ELSE {NoManual} \cup
                       { [pc |-> "start", item |-> item, proc |-> None,
                            response |-> [status |-> 0]] :
                            item \in ManualRequests }
    /\ log = [EmptyLog EXCEPT !.had_gps =
                { n \in PhotoNames : /\ disk[n].info.GPSLatitude # None
                                     /\ disk[n].info.GPSLongitude # None }]
    /\ trackpoints = <<>>
    /\ photo_time = 0
    /\ interp_result = NotCalled
    /\ pc = "start"

\* os.path.isfile(os.path.join(PHOTO_DIR, filename))
isfile(filename) == disk[filename].where = "photo_dir"

\* find_image_files: the sorted listing, filtered
find_image_files == SelectSeq(PhotoList, isfile)

\* a coroutine of a gather; proc is what its exiftool process has done when
\* the process has run and proc.communicate() has not returned yet
NewTask(filename) ==
    [pc |-> "new", filename |-> filename, meta |-> None, gps |-> None, result |-> None,
     seen |-> None, proc |-> None]

\* a variant that tests the time before the GPS
ScanClassifyTimeFirst(photo, tps, gap) ==
    IF photo.time = None THEN photo @@ [status |-> "no_time"]
    ELSE IF photo.has_gps THEN photo @@ [status |-> "has_gps"]
    ELSE LET gps == interpolate_gps(tps, fromisoformat(photo.time), gap)
         IN  IF gps # None
             THEN photo @@ [matched_lat |-> gps.lat, matched_lon |-> gps.lon,
                            matched_ele |-> gps.ele, status |-> "matched"]
             ELSE photo @@ [status |-> "no_match"]

\* the matching loop of async_scan_photos on one metadata record
ScanClassify(photo, tps, gap) ==
    IF photo.has_gps THEN photo @@ [status |-> "has_gps"]
    ELSE IF photo.time = None THEN photo @@ [status |-> "no_time"]
    ELSE LET gps == interpolate_gps(tps, fromisoformat(photo.time), gap)
         IN  IF gps # None
             THEN photo @@ [matched_lat |-> gps.lat, matched_lon |-> gps.lon,
                            matched_ele |-> gps.ele, status |-> "matched"]
             ELSE photo @@ [status |-> "no_match"]

\* the records the matching loop has passed to interpolate_gps: those it
\* left with the status of a match or of a failed match
ScanInterpolated(photos) ==
    { [who |-> i, file |-> photos[i].filename] :
        i \in { j \in 1..Len(photos) : photos[j].status \in {"matched", "no_match"} } }

\* api_scan up to the gather: the directory test, find_image_files,
\* parse_gpx_files, one metadata coroutine per image file
ScanStart ==
    /\ mode = "scan" /\ pc = "start"
    /\ IF ~env.photo_dir_ok
       THEN /\ response' = [status |-> 400]
            /\ pc' = "done"
            /\ UNCHANGED <<trackpoints, tasks>>
       ELSE /\ trackpoints' = IF env.gpx_dir_ok THEN parse_gpx_files(gpx_dir) ELSE <<>>
            /\ tasks' = [i \in 1..Len(find_image_files) |-> NewTask(find_image_files[i])]
            /\ pc' = "gather"
            /\ UNCHANGED response
    /\ UNCHANGED <<photo_time, max_gap, interp_result, gpx_dir,
                   mode, manual, env, disk, request, cli, log>>

\* the first steps of the coroutines of a gather are queued together, and
\* the callbacks that resume one of them from its spawn are queued behind
\* them: a coroutine of the gather has not taken its first step yet
GatherStarting == \E i \in 1..Len(tasks) : tasks[i].pc = "new"

\* a coroutine resumes from await asyncio.create_subprocess_exec(...) and
\* suspends at await proc.communicate() (geo_core lines 362-374, 409-422)
TaskSpawned(i) ==
    /\ mode \in {"scan", "auto", "batch_manual"} /\ pc \in {"gather", "responded"}
    /\ i \in 1..Len(tasks) /\ tasks[i].pc \in {"read_spawned", "write_spawned"}
    /\ ~GatherStarting
    /\ tasks' = [tasks EXCEPT ![i].pc = IF @ = "read_spawned" THEN "reading" ELSE "writing"]
    /\ UNCHANGED <<trackpoints, photo_time, max_gap, interp_result, gpx_dir, pc,
                   mode, manual, env, disk, request, response, cli, log>>

\* the exiftool process of a metadata read runs while its coroutine is
\* suspended, at any moment between the spawn and the return of
\* proc.communicate(): it reads the file as it is at that moment
ExiftoolReads(i) ==
    /\ mode \in {"scan", "auto"} /\ pc \in {"gather", "responded"}
    /\ i \in 1..Len(tasks) /\ tasks[i].pc \in {"read_spawned", "reading"}
    /\ tasks[i].proc = None
    /\ \E run \in ReadRuns(disk[tasks[i].filename].info) :
        tasks' = [tasks EXCEPT ![i].proc = [seen |-> ReadSeen(run)]]
    /\ UNCHANGED <<trackpoints, photo_time, max_gap, interp_result, gpx_dir, pc,
                   mode, manual, env, disk, request, response, cli, log>>

\* what proc.communicate() of a read hands back once the process has run:
\* the run that printed what the process was seen to print, or a run that
\* printed no JSON object
ReadOutcomes(i) ==
    IF tasks[i].proc.seen # None
    THEN { run \in ReadRuns(tasks[i].proc.seen) : ReadSeen(run) # None }
    ELSE { run \in ReadRuns(NoExif) : ReadSeen(run) = None }

\* what a scan notes when a read has returned
ScanReadReturned(i, run) ==
    LET meta == async_get_photo_metadata(run) @@ [filename |-> tasks[i].filename]
    IN  /\ tasks' = [tasks EXCEPT ![i].pc = "done", ![i].meta = meta,
                                   ![i].seen = ReadSeen(run), ![i].proc = None]
        /\ log' = [log EXCEPT !.metas = @ \cup
                     {[who |-> i, file |-> tasks[i].filename, has_gps |-> meta.has_gps]}]

\* async_get_photo_metadata of the scan up to its first suspension: the
\* exiftool process is started, or the spawn raises and the all-absent
\* record is returned at once; the coroutines take this step in list order
ScanReadBegin(i) ==
    /\ mode = "scan" /\ pc = "gather"
    /\ i \in 1..Len(tasks) /\ tasks[i].pc = "new"
    /\ \A j \in 1..i - 1 : tasks[j].pc # "new"
    /\ \E spawn \in SpawnOutcomes :
        IF spawn = "started"
        THEN /\ tasks' = [tasks EXCEPT ![i].pc = "read_spawned"]
             /\ UNCHANGED log
        ELSE ScanReadReturned(i, NotStarted)
    /\ UNCHANGED <<trackpoints, photo_time, max_gap, interp_result, gpx_dir, pc,
                   mode, manual, env, disk, request, response, cli>>

\* proc.communicate() returns and the coroutine parses the output and
\* returns its record
ScanReadDone(i) ==
    /\ mode = "scan" /\ pc = "gather"
    /\ i \in 1..Len(tasks) /\ tasks[i].pc = "reading"
    /\ tasks[i].proc # None
    /\ \E run \in ReadOutcomes(i) :
        ScanReadReturned(i, run)
    /\ UNCHANGED <<trackpoints, photo_time, max_gap, interp_result, gpx_dir, pc,
                   mode, manual, env, disk, request, response, cli>>

\* a variant of the matching step that also tags every matched photo
ScanMatchTagging ==
    /\ mode = "scan" /\ pc = "gather"
    /\ \A i \in 1..Len(tasks) : tasks[i].pc = "done"
    /\ LET metas   == [i \in 1..Len(tasks) |-> tasks[i].meta]
           photos  == [i \in 1..Len(tasks) |-> ScanClassify(metas[i], trackpoints, max_gap)]
           matched == { i \in 1..Len(tasks) : photos[i].status = "matched" }
           At(n)   == CHOOSE i \in matched : photos[i].filename = n
       IN  /\ response' = [status |-> 200, photos |-> photos,
                           trackpoint_count |-> Len(trackpoints),
                           gpx_available |-> env.gpx_dir_ok]
           /\ disk' = [n \in PhotoNames |->
                        IF \E i \in matched : photos[i].filename = n
                        THEN [disk[n] EXCEPT !.info =
                                ApplyGps(@, GpsWriteArgs(photos[At(n)].matched_lat,
                                                         photos[At(n)].matched_lon,
                                                         photos[At(n)].matched_ele))]
                        ELSE disk[n]]
           /\ log' = [log EXCEPT !.interp = @ \cup ScanInterpolated(photos),
                                  !.written = @ \cup { [who |-> i, file |-> photos[i].filename] :
                                                          i \in matched },
                                  !.scans = Append(@, [seen   |-> [i \in 1..Len(tasks) |-> tasks[i].seen],
                                                       photos |-> photos]),
                                  !.scan_count = @ + 1]
    /\ pc' = "done"
    /\ UNCHANGED <<trackpoints, photo_time, max_gap, interp_result, gpx_dir,
                   mode, manual, env, request, tasks, cli>>

\* after the gather: the matching loop over all photos and the return
ScanMatch ==
    /\ mode = "scan" /\ pc = "gather"
    /\ \A i \in 1..Len(tasks) : tasks[i].pc = "done"
    /\ LET metas  == [i \in 1..Len(tasks) |-> tasks[i].meta]
           photos == [i \in 1..Len(tasks) |-> ScanClassify(metas[i], trackpoints, max_gap)]
       IN  /\ response' = [status |-> 200, photos |-> photos,
                           trackpoint_count |-> Len(trackpoints),
                           gpx_available |-> env.gpx_dir_ok]
           /\ log' = [log EXCEPT !.interp = @ \cup ScanInterpolated(photos),
                                  !.scans = Append(@, [seen   |-> [i \in 1..Len(tasks) |-> tasks[i].seen],
                                                       photos |-> photos]),
                                  !.scan_count = @ + 1]
    /\ pc' = "done"
    /\ UNCHANGED <<trackpoints, photo_time, max_gap, interp_result, gpx_dir,
                   mode, manual, env, disk, request, tasks, cli>>

\* the next POST /api/scan with the same max_gap: nothing of the scan before
\* is kept, the timeline and the photo records are built again (the history
\* keeps the first scan to compare the coming one with, and starts again
\* for the reads and interpolate_gps calls of the coming request)
ScanAgain ==
    /\ mode = "scan" /\ pc = "done"
    /\ log.scan_count < MaxScans
    /\ pc' = "start"
    /\ tasks' = <<>>
    /\ trackpoints' = <<>>
    /\ response' = [status |-> 0]
    /\ log' = [log EXCEPT !.scans = IF Len(@) > 1 THEN SubSeq(@, 1, 1) ELSE @,
                           !.metas = {}, !.interp = {}]
    /\ UNCHANGED <<photo_time, max_gap, interp_result, gpx_dir,
                   mode, manual, env, disk, request, cli>>

NextScan ==
    \/ ScanStart
    \/ \E i \in 1..Len(PhotoList) :
        \/ ScanReadBegin(i)
        \/ ExiftoolReads(i)
        \/ ScanReadDone(i)
    \/ ScanMatch
    \/ ScanAgain

----------------------------------------------------------------------------
(* geotag_photos.main *)

\* how a synchronous exiftool run may end
ExecOutcomes ==
    IF env.exiftool_ok THEN {"ok", "nonzero", "not_started"} ELSE {"not_started"}

SyncReadRuns(info) ==
    IF env.exiftool_ok THEN ReadRuns(info) \cup {NotStarted} ELSE {NotStarted}

\* check_exiftool: FileNotFoundError and CalledProcessError give (False, None)
check_exiftool(exec) == exec = "ok"

\* lines 76-84: the two directory tests
CliCheckDirs ==
    /\ mode = "cli" /\ pc = "start"
    /\ pc' = IF ~env.photo_dir_ok THEN "exit_no_photo_dir"
             ELSE IF ~env.gpx_dir_ok THEN "exit_no_gpx_dir"
             ELSE "check_exiftool"
    /\ UNCHANGED <<trackpoints, photo_time, max_gap, interp_result, gpx_dir, run_vars>>

\* lines 96-105
CliCheckExiftool ==
    /\ mode = "cli" /\ pc = "check_exiftool"
    /\ \E exec \in ExecOutcomes :
        pc' = IF check_exiftool(exec) THEN "parse_gpx" ELSE "exit_no_exiftool"
    /\ UNCHANGED <<trackpoints, photo_time, max_gap, interp_result, gpx_dir, run_vars>>

\* lines 107-115
CliParseGpx ==
    /\ mode = "cli" /\ pc = "parse_gpx"
    /\ trackpoints' = parse_gpx_files(gpx_dir)
    /\ pc' = IF trackpoints' = <<>> THEN "exit_no_trackpoints" ELSE "find_images"
    /\ UNCHANGED <<photo_time, max_gap, interp_result, gpx_dir, run_vars>>

\* lines 117-138
CliFindImages ==
    /\ mode = "cli" /\ pc = "find_images"
    /\ cli' = [cli EXCEPT !.image_files = find_image_files]
    /\ pc' = IF find_image_files = <<>> THEN "exit_no_images" ELSE "loop"
    /\ UNCHANGED <<trackpoints, photo_time, max_gap, interp_result, gpx_dir,
                   mode, manual, env, disk, request, tasks, response, log>>

Bump(stats, field) == [stats EXCEPT ![field] = @ + 1]

\* lines 140-180: one iteration of the loop over image_files
CliProcessPhoto ==
    /\ mode = "cli" /\ pc = "loop"
    /\ cli.i <= Len(cli.image_files)
    /\ LET filename == cli.image_files[cli.i]
           who      == [who |-> cli.i, file |-> filename]
       IN  \E run \in SyncReadRuns(disk[filename].info) :
           LET meta   == get_photo_metadata(run)
               seen   == [log EXCEPT !.metas = @ \cup
                            {[who |-> cli.i, file |-> filename, has_gps |-> meta.has_gps]}]
               gps    == interpolate_gps(trackpoints, fromisoformat(meta.time), max_gap)
               asked  == [seen EXCEPT !.interp = @ \cup {who}]
               next   == [cli EXCEPT !.i = @ + 1]
               failed == [next EXCEPT !.no_gps_files = Append(@, filename)]
           IN  IF meta.has_gps
               THEN /\ cli' = [next EXCEPT !.stats = Bump(@, "already_gps")]
                    /\ log' = seen
                    /\ UNCHANGED <<disk, pc>>
               ELSE IF meta.time = None
               THEN /\ cli' = [failed EXCEPT !.stats = Bump(@, "no_datetime")]
                    /\ log' = seen
                    /\ UNCHANGED <<disk, pc>>
               ELSE IF gps = None
               THEN /\ cli' = [failed EXCEPT !.stats = Bump(@, "no_match")]
                    /\ log' = asked
                    /\ UNCHANGED <<disk, pc>>
               ELSE IF env.dry_run
               THEN /\ cli' = [next EXCEPT !.stats = Bump(@, "tagged")]
                    /\ log' = asked
                    /\ UNCHANGED <<disk, pc>>
               ELSE \E exec \in ExecOutcomes :
                    LET success == write_gps_with_exiftool(exec)
                        called  == [asked EXCEPT !.write_calls = @ \cup {who}]
                    IN  IF success.raised
                        THEN /\ pc' = "crashed"
                             /\ log' = called
                             /\ UNCHANGED <<disk, cli>>
                        ELSE IF success.ret
                        THEN /\ disk' = [disk EXCEPT ![filename].info =
                                    ApplyGps(@, GpsWriteArgs(gps.lat, gps.lon, gps.ele))]
                             /\ cli' = [next EXCEPT !.stats = Bump(@, "tagged")]
                             /\ log' = [called EXCEPT !.written = @ \cup {who}]
                             /\ UNCHANGED pc
                        ELSE /\ cli' = [next EXCEPT !.stats = Bump(@, "errors")]
                             /\ log' = called
                             /\ UNCHANGED <<disk, pc>>
    /\ UNCHANGED <<trackpoints, photo_time, max_gap, interp_result, gpx_dir,
                   mode, manual, env, request, tasks, response>>

\* a variant that makes the no_gps directory in a dry run too
CliBeginMoveAlways ==
    /\ mode = "cli" /\ pc = "loop"
    /\ cli.i > Len(cli.image_files)
    /\ pc' = "move"
    /\ log' = [log EXCEPT !.mkdir = cli.no_gps_files # <<>>]
    /\ UNCHANGED <<trackpoints, photo_time, max_gap, interp_result, gpx_dir,
                   mode, manual, env, disk, request, tasks, response, cli>>

\* lines 185-189: after the loop, the no_gps directory is made unless dry_run
CliBeginMove ==
    /\ mode = "cli" /\ pc = "loop"
    /\ cli.i > Len(cli.image_files)
    /\ pc' = "move"
    /\ log' = [log EXCEPT !.mkdir = cli.no_gps_files # <<>> /\ ~env.dry_run]
    /\ UNCHANGED <<trackpoints, photo_time, max_gap, interp_result, gpx_dir,
                   mode, manual, env, disk, request, tasks, response, cli>>

\* lines 190-199: one iteration of the loop over no_gps_files; a failing
\* shutil.move is caught and printed
CliMovePhoto ==
    /\ mode = "cli" /\ pc = "move"
    /\ cli.no_gps_files # <<>>
    /\ LET filename == Head(cli.no_gps_files)
       IN  IF env.dry_run
           THEN UNCHANGED <<disk, log>>
           ELSE \E moved \in BOOLEAN :
                IF moved
                THEN /\ disk' = [disk EXCEPT ![filename].where = "no_gps"]
                     /\ log' = [log EXCEPT !.moves = @ \cup {filename}]
                ELSE UNCHANGED <<disk, log>>
    /\ cli' = [cli EXCEPT !.no_gps_files = Tail(@)]
    /\ UNCHANGED <<trackpoints, photo_time, max_gap, interp_result, gpx_dir, pc,
                   mode, manual, env, request, tasks, response>>

\* lines 201-213: the summary
CliSummary ==
    /\ mode = "cli" /\ pc = "move"
    /\ cli.no_gps_files = <<>>
    /\ pc' = "done"
    /\ UNCHANGED <<trackpoints, photo_time, max_gap, interp_result, gpx_dir, run_vars>>

NextCli ==
    \/ CliCheckDirs
    \/ CliCheckExiftool
    \/ CliParseGpx
    \/ CliFindImages
    \/ CliProcessPhoto
    \/ CliBeginMove
    \/ CliMovePhoto
    \/ CliSummary

----------------------------------------------------------------------------
(* web_app.api_auto_geotag and web_app.api_batch_manual_geotag *)

\* a variant that does not test has_gps
AutoDecideNoGpsTest(meta, tps, gap) ==
    IF meta.time = None
    THEN [reason |-> "no_time", gps |-> None]
    ELSE LET gps == interpolate_gps(tps, fromisoformat(meta.time), gap)
         IN  IF gps = None THEN [reason |-> "no_match", gps |-> None]
             ELSE [reason |-> "write", gps |-> gps]

\* process_one of api_auto_geotag from the metadata to the write
AutoDecide(meta, tps, gap) ==
    IF meta.has_gps
    THEN [reason |-> "has_gps", gps |-> None, lat |-> meta.lat, lon |-> meta.lon]
    ELSE IF meta.time = None
    THEN [reason |-> "no_time", gps |-> None]
    ELSE LET gps == interpolate_gps(tps, fromisoformat(meta.time), gap)
         IN  IF gps = None THEN [reason |-> "no_match", gps |-> None]
             ELSE [reason |-> "write", gps |-> gps]

\* a variant that goes on with an empty timeline
AutoStartNoTrackTest ==
    /\ mode = "auto" /\ pc = "start"
    /\ IF ~env.gpx_dir_ok
       THEN /\ response' = [status |-> 400, error |-> "no_gpx_dir"]
            /\ pc' = "responded"
            /\ UNCHANGED <<trackpoints, tasks>>
       ELSE /\ trackpoints' = parse_gpx_files(gpx_dir)
            /\ tasks' = [i \in 1..Len(request) |-> NewTask(request[i])]
            /\ pc' = "gather"
            /\ UNCHANGED response
    /\ UNCHANGED <<photo_time, max_gap, interp_result, gpx_dir,
                   mode, manual, env, disk, request, cli, log>>

\* lines 171-182 and 216: the track tests, then one coroutine per filename
AutoStart ==
    /\ mode = "auto" /\ pc = "start"
    /\ IF ~env.gpx_dir_ok
       THEN /\ response' = [status |-> 400, error |-> "no_gpx_dir"]
            /\ pc' = "responded"
            /\ UNCHANGED <<trackpoints, tasks>>
       ELSE /\ trackpoints' = parse_gpx_files(gpx_dir)
            /\ IF trackpoints' = <<>>
               THEN /\ response' = [status |-> 400, error |-> "no_trackpoints"]
                    /\ pc' = "responded"
                    /\ UNCHANGED tasks
               ELSE /\ tasks' = [i \in 1..Len(request) |-> NewTask(request[i])]
                    /\ pc' = "gather"
                    /\ UNCHANGED response
    /\ UNCHANGED <<photo_time, max_gap, interp_result, gpx_dir,
                   mode, manual, env, disk, request, cli, log>>

\* lines 192-206: process_one once the metadata is back, up to the first
\* suspension of the write (its exiftool process is started, or the spawn
\* raises)
AutoAfterRead(i, meta) ==
    LET filename == tasks[i].filename
        who      == [who |-> i, file |-> filename]
        d        == AutoDecide(meta, trackpoints, max_gap)
        seen     == [log EXCEPT !.metas = @ \cup
                       {[who |-> i, file |-> filename, has_gps |-> meta.has_gps]}]
        asked    == IF d.reason \in {"no_match", "write"}
                    THEN [seen EXCEPT !.interp = @ \cup {who}] ELSE seen
    IN  IF d.reason # "write"
        THEN /\ tasks' = [tasks EXCEPT ![i].pc = "done", ![i].meta = meta,
                            ![i].proc = None,
                            ![i].result = [filename |-> filename, success |-> FALSE]
                                            @@ [k \in DOMAIN d \ {"gps"} |-> d[k]]]
             /\ log' = asked
             /\ UNCHANGED response
        ELSE \E spawn \in SpawnOutcomes :
             /\ log' = [asked EXCEPT !.write_calls = @ \cup {who}]
             /\ IF spawn = "started"
                THEN /\ tasks' = [tasks EXCEPT ![i].pc = "write_spawned", ![i].meta = meta,
                                                ![i].gps = d.gps, ![i].proc = None]
                     /\ UNCHANGED response
                ELSE /\ tasks' = [tasks EXCEPT ![i].pc = "raised", ![i].meta = meta,
                                                ![i].gps = d.gps, ![i].proc = None]
                     /\ UNCHANGED response

\* lines 186-191: process_one up to the first await that suspends; the
\* coroutines of a gather take this step in list order
AutoTaskBegin(i) ==
    /\ mode = "auto" /\ pc \in {"gather", "responded"}
    /\ i \in 1..Len(tasks) /\ tasks[i].pc = "new"
    /\ \A j \in 1..i - 1 : tasks[j].pc # "new"
    /\ IF ~isfile(tasks[i].filename)
       THEN /\ tasks' = [tasks EXCEPT ![i].pc = "done",
                           ![i].result = [filename |-> tasks[i].filename,
                                          success |-> FALSE, reason |-> "file_not_found"]]
            /\ UNCHANGED <<log, response>>
       ELSE \E spawn \in SpawnOutcomes :
            IF spawn = "started"
            THEN /\ tasks' = [tasks EXCEPT ![i].pc = "read_spawned"]
                 /\ UNCHANGED <<log, response>>
            ELSE AutoAfterRead(i, async_get_photo_metadata(NotStarted))
    /\ UNCHANGED <<trackpoints, photo_time, max_gap, interp_result, gpx_dir, pc,
                   mode, manual, env, disk, request, cli>>

\* proc.communicate() of the metadata read returns and process_one runs on
\* to its next suspension
AutoReadDone(i) ==
    /\ mode = "auto" /\ pc \in {"gather", "responded"}
    /\ i \in 1..Len(tasks) /\ tasks[i].pc = "reading"
    /\ tasks[i].proc # None
    /\ \E run \in ReadOutcomes(i) :
        AutoAfterRead(i, async_get_photo_metadata(run))
    /\ UNCHANGED <<trackpoints, photo_time, max_gap, interp_result, gpx_dir, pc,
                   mode, manual, env, disk, request, cli>>

\* lines 243-255: no test before the gather
BatchStart ==
    /\ mode = "batch_manual" /\ pc = "start"
    /\ tasks' = [i \in 1..Len(request) |->
                    [NewTask(request[i].filename) EXCEPT
                        !.gps = [lat |-> request[i].lat, lon |-> request[i].lon,
                                 ele |-> request[i].ele]]]
    /\ pc' = "gather"
    /\ UNCHANGED <<trackpoints, photo_time, max_gap, interp_result, gpx_dir,
                   mode, manual, env, disk, request, response, cli, log>>

\* lines 243-247: process_one of the batch up to the await of the write
BatchTaskBegin(i) ==
    /\ mode = "batch_manual" /\ pc \in {"gather", "responded"}
    /\ i \in 1..Len(tasks) /\ tasks[i].pc = "new"
    /\ \A j \in 1..i - 1 : tasks[j].pc # "new"
    /\ IF ~isfile(tasks[i].filename)
       THEN /\ tasks' = [tasks EXCEPT ![i].pc = "done",
                           ![i].result = [filename |-> tasks[i].filename,
                                          success |-> FALSE, reason |-> "file_not_found"]]
            /\ UNCHANGED <<log, response>>
       ELSE \E spawn \in SpawnOutcomes :
            /\ log' = [log EXCEPT !.write_calls = @ \cup
                          {[who |-> i, file |-> tasks[i].filename]}]
            /\ IF spawn = "started"
               THEN /\ tasks' = [tasks EXCEPT ![i].pc = "write_spawned"]
                    /\ UNCHANGED response
               ELSE /\ tasks' = [tasks EXCEPT ![i].pc = "raised"]
                    /\ UNCHANGED response
    /\ UNCHANGED <<trackpoints, photo_time, max_gap, interp_result, gpx_dir, pc,
                   mode, manual, env, disk, request, cli>>

\* what process_one returns after the write: api_auto_geotag adds the
\* elevation and a reason (lines 207-214), api_batch_manual_geotag does not
\* (lines 248-253)
WriteResult(filename, ok, gps) ==
    IF mode = "auto"
    THEN [filename |-> filename, success |-> ok, lat |-> gps.lat, lon |-> gps.lon,
          ele |-> gps.ele, reason |-> IF ok THEN "written" ELSE "write_failed"]
    ELSE [filename |-> filename, success |-> ok, lat |-> gps.lat, lon |-> gps.lon]

\* how the exiftool process of a write may end once it has started
WriteExecs == {"ok", "nonzero"}

\* the exiftool process of a coroutine's write runs while the coroutine is
\* suspended, at any moment between the spawn and the return of
\* proc.communicate(): it rewrites the file or fails
ExiftoolWrites(i) ==
    /\ mode \in {"auto", "batch_manual"} /\ pc \in {"gather", "responded"}
    /\ i \in 1..Len(tasks) /\ tasks[i].pc \in {"write_spawned", "writing"}
    /\ tasks[i].proc = None
    /\ \E exec \in WriteExecs :
        LET filename == tasks[i].filename
            gps      == tasks[i].gps
        IN  /\ tasks' = [tasks EXCEPT ![i].proc = [exec |-> exec]]
            /\ IF async_write_gps(exec)
               THEN /\ disk' = [disk EXCEPT ![filename].info =
                            ApplyGps(@, GpsWriteArgs(gps.lat, gps.lon, gps.ele))]
                    /\ log' = [log EXCEPT !.written = @ \cup
                                  {[who |-> i, file |-> filename]}]
               ELSE UNCHANGED <<disk, log>>
    /\ UNCHANGED <<trackpoints, photo_time, max_gap, interp_result, gpx_dir, pc,
                   mode, manual, env, request, response, cli>>

\* proc.communicate() of a write returns once the process has ended:
\* async_write_gps returns and process_one returns its result (lines
\* 206-214, 247-253)
TaskWriteDone(i) ==
    /\ mode \in {"auto", "batch_manual"} /\ pc \in {"gather", "responded"}
    /\ i \in 1..Len(tasks) /\ tasks[i].pc = "writing"
    /\ tasks[i].proc # None
    /\ LET ok == async_write_gps(tasks[i].proc.exec)
       IN  tasks' = [tasks EXCEPT ![i].pc = "done", ![i].proc = None,
                        ![i].result = WriteResult(tasks[i].filename, ok, tasks[i].gps)]
    /\ UNCHANGED <<trackpoints, photo_time, max_gap, interp_result, gpx_dir, pc,
                   mode, manual, env, disk, request, response, cli, log>>

\* lines 217-219, 256-257: every coroutine has returned
GatherReturn ==
    /\ mode \in {"auto", "batch_manual"} /\ pc = "gather"
    /\ \A i \in 1..Len(tasks) : tasks[i].pc = "done"
    /\ response' = [status |-> 200, results |-> [i \in 1..Len(tasks) |-> tasks[i].result]]
    /\ pc' = "responded"
    /\ UNCHANGED <<trackpoints, photo_time, max_gap, interp_result, gpx_dir,
                   mode, manual, env, disk, request, tasks, cli, log>>

\* asyncio.gather without return_exceptions: the first exception of a
\* coroutine reaches the awaiting handler in a later callback, and the
\* request ends in a 500; the other coroutines of the batch go on
GatherRaise ==
    /\ mode \in {"auto", "batch_manual"} /\ pc = "gather"
    /\ \E i \in 1..Len(tasks) : tasks[i].pc = "raised"
    /\ response' = [status |-> 500]
    /\ pc' = "responded"
    /\ UNCHANGED <<trackpoints, photo_time, max_gap, interp_result, gpx_dir,
                   mode, manual, env, disk, request, tasks, cli, log>>

\* api_manual_geotag (lines 222-227) up to the first suspension of
\* async_write_gps: 404 for a missing file; the exiftool process is started,
\* or the spawn raises and the request ends in a 500
ManualStart ==
    /\ mode \in {"scan", "auto", "batch_manual"}
    /\ manual.pc = "start"
    /\ IF ~isfile(manual.item.filename)
       THEN manual' = [manual EXCEPT !.pc = "responded",
                          !.response = [status |-> 404, error |-> "file_not_found"]]
       ELSE \E spawn \in SpawnOutcomes :
            IF spawn = "started"
            THEN manual' = [manual EXCEPT !.pc = "write_spawned"]
            ELSE manual' = [manual EXCEPT !.pc = "responded",
                               !.response = [status |-> 500, error |-> "raised"]]
    /\ UNCHANGED <<trackpoints, photo_time, max_gap, interp_result, gpx_dir, pc,
                   mode, env, disk, request, tasks, response, cli, log>>

\* the manual write resumes from create_subprocess_exec and suspends at
\* proc.communicate()
ManualSpawned ==
    /\ manual.pc = "write_spawned"
    /\ manual' = [manual EXCEPT !.pc = "writing"]
    /\ UNCHANGED <<trackpoints, photo_time, max_gap, interp_result, gpx_dir, pc,
                   mode, env, disk, request, tasks, response, cli, log>>

\* the exiftool process of the manual write runs while the handler is
\* suspended: it rewrites the file or fails
ManualExiftoolWrites ==
    /\ manual.pc \in {"write_spawned", "writing"}
    /\ manual.proc = None
    /\ \E exec \in WriteExecs :
        LET item == manual.item
        IN  /\ manual' = [manual EXCEPT !.proc = [exec |-> exec]]
            /\ IF async_write_gps(exec)
               THEN /\ disk' = [disk EXCEPT ![item.filename].info =
                            ApplyGps(@, GpsWriteArgs(item.lat, item.lon, item.ele))]
                    /\ log' = [log EXCEPT !.manual = @ \cup {item.filename}]
               ELSE UNCHANGED <<disk, log>>
    /\ UNCHANGED <<trackpoints, photo_time, max_gap, interp_result, gpx_dir, pc,
                   mode, env, request, tasks, response, cli>>

\* proc.communicate() of the manual write returns once the process has
\* ended (lines 229-237): the answer is 200 if it exited with 0, and 500
\* otherwise
ManualWriteDone ==
    /\ manual.pc = "writing"
    /\ manual.proc # None
    /\ LET item == manual.item
       IN  IF async_write_gps(manual.proc.exec)
           THEN manual' = [manual EXCEPT !.pc = "responded", !.proc = None,
                    !.response = [status |-> 200, success |-> TRUE,
                                  filename |-> item.filename,
                                  lat |-> item.lat, lon |-> item.lon]]
           ELSE manual' = [manual EXCEPT !.pc = "responded", !.proc = None,
                    !.response = [status |-> 500, error |-> "write_failed"]]
    /\ UNCHANGED <<trackpoints, photo_time, max_gap, interp_result, gpx_dir, pc,
                   mode, env, disk, request, tasks, response, cli, log>>

NextWeb ==
    \/ AutoStart
    \/ BatchStart
    \/ \E i \in 1..MaxReq :
        \/ AutoTaskBegin(i)
        \/ AutoReadDone(i)
        \/ BatchTaskBegin(i)
        \/ TaskSpawned(i)
        \/ ExiftoolWrites(i)
        \/ TaskWriteDone(i)
    \/ GatherReturn
    \/ GatherRaise
    \/ ManualStart
    \/ ManualSpawned
    \/ ManualExiftoolWrites
    \/ ManualWriteDone

----------------------------------------------------------------------------
(* Specification of the runs *)

Next == NextScan \/ NextCli \/ NextWeb

Spec == InitRun /\ [][Next]_vars

----------------------------------------------------------------------------
(* Specification of single metadata reads *)

\* what exiftool may print for one field of a photo
GpsFieldChoices == {None, Frac(5, 1), Garbled}

DateChoices ==
    { None,
      [kind |-> "zero", local |-> 0, utcoffset |-> 0],
      [kind |-> "unparseable", local |-> 0, utcoffset |-> 0],
      [kind |-> "naive", local |-> 3, utcoffset |-> 0],
      [kind |-> "subsec", local |-> 3, utcoffset |-> 0],
      [kind |-> "aware", local |-> 3, utcoffset |-> 2] }

OffsetChoices == {None, [valid |-> TRUE, seconds |-> 2], [valid |-> FALSE, seconds |-> 0]}

\* exiftool's JSON object for a photo
ReadInfoSet ==
    { [NoExif EXCEPT !.GPSLatitude = la, !.GPSLongitude = lo,
                     !.DateTimeOriginal = d, !.OffsetTime = o] :
        la \in GpsFieldChoices, lo \in GpsFieldChoices,
        d \in DateChoices, o \in OffsetChoices }

InitRead ==
    /\ mode = "read"
    /\ \E exiftool_ok \in BOOLEAN :
        env = [photo_dir_ok |-> TRUE, gpx_dir_ok |-> FALSE,
               exiftool_ok |-> exiftool_ok, dry_run |-> FALSE]
    /\ \E info \in ReadInfoSet :
        disk = [n \in PhotoNames |-> [where |-> "photo_dir", info |-> info]]
    /\ gpx_dir = <<>>
    /\ max_gap = 0
    /\ request = <<>>
    /\ tasks = <<>>
    /\ response = [status |-> 0]
    /\ cli = [image_files |-> <<>>, i |-> 1, stats |-> EmptyStats, no_gps_files |-> <<>>]
    /\ manual = NoManual
    /\ log = EmptyLog
    /\ trackpoints = <<>>
    /\ photo_time = 0
    /\ interp_result = NotCalled
    /\ pc = "start"

\* the record a read returned, kept with the JSON object it parsed
ReadReturned(n, run, meta) ==
    /\ tasks' = <<[NewTask(n) EXCEPT !.pc = "done", !.meta = meta, !.seen = ReadSeen(run)]>>
    /\ UNCHANGED <<trackpoints, photo_time, max_gap, interp_result, gpx_dir,
                   mode, manual, env, disk, request, response, cli, log>>

\* one call of get_photo_metadata (subprocess.run blocks until exiftool ends)
CallGetPhotoMetadata ==
    /\ mode = "read" /\ pc = "start"
    /\ \E n \in PhotoNames :
       \E run \in SyncReadRuns(disk[n].info) :
            ReadReturned(n, run, get_photo_metadata(run))
    /\ pc' = "sync_returned"

\* async_get_photo_metadata up to its first suspension, at
\* await asyncio.create_subprocess_exec(...): the process is started, or the
\* spawn raises and the all-absent record is returned at once
CallAsyncGetPhotoMetadata ==
    /\ mode = "read" /\ pc = "start"
    /\ \E n \in PhotoNames :
       \E spawn \in SpawnOutcomes :
            IF spawn = "started"
            THEN /\ tasks' = <<[NewTask(n) EXCEPT !.pc = "read_spawned"]>>
                 /\ pc' = "async_spawned"
                 /\ UNCHANGED <<trackpoints, photo_time, max_gap, interp_result, gpx_dir,
                                mode, manual, env, disk, request, response, cli, log>>
            ELSE /\ ReadReturned(n, NotStarted, async_get_photo_metadata(NotStarted))
                 /\ pc' = "async_returned"

\* the coroutine resumes with the process and suspends at
\* await proc.communicate()
AsyncReadSpawned ==
    /\ mode = "read" /\ pc = "async_spawned"
    /\ tasks' = <<[tasks[1] EXCEPT !.pc = "reading"]>>
    /\ pc' = "async_communicating"
    /\ UNCHANGED <<trackpoints, photo_time, max_gap, interp_result, gpx_dir,
                   mode, manual, env, disk, request, response, cli, log>>

\* proc.communicate() returns and the coroutine returns its record
AsyncReadDone ==
    /\ mode = "read" /\ pc = "async_communicating"
    /\ \E run \in ReadRuns(disk[tasks[1].filename].info) :
            ReadReturned(tasks[1].filename, run, async_get_photo_metadata(run))
    /\ pc' = "async_returned"

NextRead ==
    \/ CallGetPhotoMetadata
    \/ CallAsyncGetPhotoMetadata
    \/ AsyncReadSpawned
    \/ AsyncReadDone

SpecRead == InitRead /\ [][NextRead]_vars

----------------------------------------------------------------------------
(* Claims about interpolate_gps, checked under SpecInterp *)

InterpReturned == interp_result # NotCalled

\* r lies on the line from b to a at parameter e/g (all cross-multiplied)
OnLine(r, b, a, e, g) ==
    r.num * (b.den * a.den * g)
        = r.den * (b.num * a.den * g + (a.num * b.den - b.num * a.den) * e)

\* the adjacent pair i, i+1 brackets the query strictly
Brackets(i) ==
    /\ i \in 1..Len(trackpoints) - 1
    /\ trackpoints[i].time < photo_time
    /\ photo_time < trackpoints[i + 1].time

\* C1: a query strictly between two adjacent points whose distance is at most
\* max_gap_seconds gets, for lat, lon and ele independently,
\* before + (after - before) * ratio with ratio = elapsed / total_gap in [0,1].
C1_InteriorLinear ==
    InterpReturned =>
        \A i \in 1..Len(trackpoints) - 1 :
            LET before == trackpoints[i]
                after  == trackpoints[i + 1]
                g      == after.time - before.time
                e      == photo_time - before.time
            IN  (Brackets(i) /\ g <= max_gap) =>
                    /\ interp_result # None
                    /\ 0 <= e /\ e <= g
                    /\ OnLine(interp_result.lat, before.lat, after.lat, e, g)
                    /\ OnLine(interp_result.lon, before.lon, after.lon, e, g)
                    /\ OnLine(interp_result.ele, before.ele, after.ele, e, g)

\* an interpolation at ratio 1/3 between points that differ in lat, lon and ele
C1_Witness ==
    /\ InterpReturned
    /\ \E i \in 1..Len(trackpoints) - 1 :
        /\ Brackets(i)
        /\ trackpoints[i + 1].time - trackpoints[i].time = 3
        /\ photo_time - trackpoints[i].time = 1
        /\ max_gap = 3
        /\ trackpoints[i].lat # trackpoints[i + 1].lat
        /\ trackpoints[i].lon # trackpoints[i + 1].lon
        /\ trackpoints[i].ele # trackpoints[i + 1].ele
        /\ interp_result # None
        /\ interp_result.lat \notin {trackpoints[i].lat, trackpoints[i + 1].lat}

\* the first index (1-based) of the timeline whose time equals the query
FirstAt(t) ==
    CHOOSE i \in 1..Len(trackpoints) :
        /\ trackpoints[i].time = t
        /\ \A j \in 1..i - 1 : trackpoints[j].time # t

\* C2: a query equal to the timestamp of some point returns the position of
\* the first point with that timestamp, unmodified, whatever max_gap_seconds
\* and the distances to the neighbours are.
C2_ExactMatch ==
    (InterpReturned /\ \E i \in 1..Len(trackpoints) : trackpoints[i].time = photo_time)
        => interp_result = PosOf(trackpoints[FirstAt(photo_time)])

\* an exact hit on a duplicated timestamp, with a negative tolerance and a
\* neighbour farther away than any tolerance
C2_Witness ==
    /\ InterpReturned
    /\ max_gap = -1
    /\ Len(trackpoints) = 3
    /\ trackpoints[1].time + MaxGap < trackpoints[2].time
    /\ trackpoints[2].time = photo_time
    /\ trackpoints[3].time = photo_time
    /\ PosOf(trackpoints[2]) # PosOf(trackpoints[3])
    /\ interp_result = PosOf(trackpoints[2])

\* C3: a query before the first point (after the last point) returns None iff
\* its distance to that edge point exceeds max_gap_seconds, and otherwise
\* exactly the first (last) point's position.
C3_EdgePolicy ==
    (InterpReturned /\ Len(trackpoints) > 0) =>
        LET first == trackpoints[1]
            last  == trackpoints[Len(trackpoints)]
        IN  /\ photo_time < first.time =>
                /\ (interp_result = None) <=> (first.time - photo_time > max_gap)
                /\ interp_result # None => interp_result = PosOf(first)
            /\ photo_time > last.time =>
                /\ (interp_result = None) <=> (photo_time - last.time > max_gap)
                /\ interp_result # None => interp_result = PosOf(last)

\* a late query exactly max_gap_seconds after the last point, which differs
\* from the first point
C3_Witness ==
    /\ InterpReturned
    /\ Len(trackpoints) >= 2
    /\ photo_time - trackpoints[Len(trackpoints)].time = max_gap
    /\ max_gap > 0
    /\ PosOf(trackpoints[1]) # PosOf(trackpoints[Len(trackpoints)])
    /\ interp_result = PosOf(trackpoints[Len(trackpoints)])

\* C4: a query strictly inside a bracket wider than max_gap_seconds returns
\* None, however close it is to either end of the bracket.
C4_WideBracketAbsent ==
    InterpReturned =>
        \A i \in 1..Len(trackpoints) - 1 :
            (Brackets(i) /\ trackpoints[i + 1].time - trackpoints[i].time > max_gap)
                => interp_result = None

\* a query one second after `before`, within the tolerance of it, in a
\* bracket wider than the tolerance
C4_Witness ==
    /\ InterpReturned
    /\ \E i \in 1..Len(trackpoints) - 1 :
        /\ Brackets(i)
        /\ photo_time - trackpoints[i].time = 1
        /\ max_gap = 2
        /\ trackpoints[i + 1].time - trackpoints[i].time = 3
    /\ interp_result = None

----------------------------------------------------------------------------
(* Claims about parse_gpx_files, checked under SpecLoader *)

\* the files of the directory that parsed
ParsedFiles == { f \in DOMAIN gpx_dir : gpx_dir[f].parses }

\* where the timed track points of the parsed files sit: file, track,
\* segment, index
TimedTrackPointSites ==
    UNION { UNION { UNION { { <<f, t, g, i>> :
                i \in { j \in 1..Len(gpx_dir[f].tracks[t].segments[g].points) :
                           gpx_dir[f].tracks[t].segments[g].points[j].time # None } } :
            g \in 1..Len(gpx_dir[f].tracks[t].segments) } :
        t \in 1..Len(gpx_dir[f].tracks) } :
    f \in ParsedFiles }

\* where the timed waypoints of the parsed files sit: file, index
TimedWaypointSites ==
    UNION { { <<f, i>> : i \in { j \in 1..Len(gpx_dir[f].waypoints) :
                                   gpx_dir[f].waypoints[j].time # None } } :
            f \in ParsedFiles }

\* what the claim expects of a timed point: its time on the UTC axis, its
\* coordinates, and elevation 0 when it has none
Expected(p) ==
    [time |-> IF p.time.aware THEN p.time.local - p.time.utcoffset ELSE p.time.local,
     lat  |-> p.latitude,
     lon  |-> p.longitude,
     ele  |-> IF p.elevation = None THEN Frac(0, 1) ELSE p.elevation]

\* the number of timed points of the parsed files that are equal to x
SourceCount(x) ==
    Cardinality({ s \in TimedTrackPointSites :
        x = Expected(gpx_dir[s[1]].tracks[s[2]].segments[s[3]].points[s[4]]) })
    + Cardinality({ s \in TimedWaypointSites :
        x = Expected(gpx_dir[s[1]].waypoints[s[2]]) })

SourceTotal == Cardinality(TimedTrackPointSites) + Cardinality(TimedWaypointSites)

\* C5: the list parse_gpx_files returns is non-decreasing in time and holds
\* exactly the timed track points and waypoints of the files that parsed.
C5_LoaderSortedExact ==
    pc = "loaded" =>
        /\ \A i \in 1..Len(trackpoints) - 1 :
            trackpoints[i].time <= trackpoints[i + 1].time
        /\ Len(trackpoints) = SourceTotal
        /\ \A i \in 1..Len(trackpoints) :
            Cardinality({ j \in 1..Len(trackpoints) : trackpoints[j] = trackpoints[i] })
                = SourceCount(trackpoints[i])

\* a broken file with a timed point, and a parsed file whose track point
\* (aware, UTC 2) precedes in the file a waypoint (aware, UTC 0, no elevation)
C5_Witness ==
    /\ pc = "loaded"
    /\ DOMAIN gpx_dir = {1, 2}
    /\ ~gpx_dir[1].parses
    /\ Len(gpx_dir[1].tracks) = 1
    /\ gpx_dir[1].tracks[1].segments[1].points[1].time # None
    /\ gpx_dir[2].parses
    /\ Len(gpx_dir[2].tracks) = 1
    /\ gpx_dir[2].tracks[1].segments[1].points[1].time
           = [aware |-> TRUE, local |-> 1, utcoffset |-> -1]
    /\ Len(gpx_dir[2].waypoints) = 1
    /\ gpx_dir[2].waypoints[1].time = [aware |-> TRUE, local |-> 2, utcoffset |-> 2]
    /\ gpx_dir[2].waypoints[1].elevation = None
    /\ Len(trackpoints) = 2
    /\ trackpoints[1].time = 0
    /\ trackpoints[1].ele = Frac(0, 1)
    /\ trackpoints[2].time = 2

----------------------------------------------------------------------------
(* Claims about the runs, checked under Spec *)

ScanReturned == mode = "scan" /\ response.status = 200

MatchedFields == {"matched_lat", "matched_lon", "matched_ele"}

\* C6: in a scan every photo gets exactly one outcome by the precedence
\* has_gps, then no_time, then matched / no_match as interpolate_gps returns a
\* position or None; matched_lat/lon/ele are on the photo iff it is matched.
C6_ScanPrecedence ==
    ScanReturned =>
        /\ Len(response.photos) = Len(tasks)
        /\ \A i \in 1..Len(response.photos) :
            LET photo == response.photos[i]
                found == interpolate_gps(trackpoints, photo.time.iso, max_gap)
            IN  /\ photo.filename = tasks[i].filename
                /\ photo.status \in {"has_gps", "no_time", "matched", "no_match"}
                /\ photo.has_gps => photo.status = "has_gps"
                /\ (~photo.has_gps /\ photo.time = None) => photo.status = "no_time"
                /\ (~photo.has_gps /\ photo.time # None /\ found # None) =>
                        /\ photo.status = "matched"
                        /\ photo.matched_lat = found.lat
                        /\ photo.matched_lon = found.lon
                        /\ photo.matched_ele = found.ele
                /\ (~photo.has_gps /\ photo.time # None /\ found = None) =>
                        photo.status = "no_match"
                /\ \A f \in MatchedFields :
                        (f \in DOMAIN photo) <=> (photo.status = "matched")

\* a scan of a photo with GPS and no time and of a photo that is matched at
\* an interpolated position
C6_Witness ==
    /\ ScanReturned
    /\ Len(response.photos) = 2
    /\ response.photos[1].has_gps
    /\ response.photos[1].time = None
    /\ response.photos[1].status = "has_gps"
    /\ response.photos[2].status = "matched"
    /\ response.photos[2].matched_lat = Frac(3, 2)

AutomaticPath == mode \in {"scan", "cli", "auto"}

\* the calls of interpolate_gps and of the GPS write a step adds
NewCalls == (log'.interp \cup log'.write_calls) \ (log.interp \cup log.write_calls)

\* C7 as stated, photo by photo: on the automatic paths the run never passes
\* to interpolate_gps, nor starts a GPS write of, a photo for which a
\* metadata read of the run has reported GPS.
C7_PhotoNeverPassedOn ==
    [][AutomaticPath =>
        \A c \in NewCalls : \A m \in log'.metas : m.has_gps => m.file # c.file]_vars

\* C7, the part the code keeps: on the automatic paths (scan, CLI,
\* auto-geotag) the loop
\* iteration or coroutine whose metadata read reported GPS does not pass
\* the photo to interpolate_gps and starts no GPS write of it, and a file
\* that carried GPS when the run began gets no GPS write from any part of
\* the run.
C7_ExistingGpsSkipped ==
    AutomaticPath =>
        /\ \A m \in log.metas :
            m.has_gps =>
                [who |-> m.who, file |-> m.file] \notin (log.interp \cup log.write_calls)
        /\ \A c \in log.write_calls : c.file \notin log.had_gps

\* an auto-geotag batch in which one photo was read with GPS and skipped
\* while another photo was written
C7_Witness ==
    /\ mode = "auto"
    /\ Len(tasks) = 2
    /\ tasks[1].filename # tasks[2].filename
    /\ tasks[1].pc = "done"
    /\ tasks[1].meta # None
    /\ tasks[1].meta.has_gps
    /\ "reason" \in DOMAIN tasks[1].result
    /\ tasks[1].result.reason = "has_gps"
    /\ tasks[2].pc = "done"
    /\ tasks[2].result.success
    /\ log.written = {[who |-> 2, file |-> tasks[2].filename]}

\* C8: in tagging mode a failing GPS write of whatever kind is that photo's
\* own failed result, and every other photo is processed and gets its result:
\* the auto-geotag answer lists a result for every filename, and the CLI loop
\* is not left before the last image file.
C8_WriteFailureIsolated ==
    /\ (mode = "auto" /\ pc = "responded" /\ tasks # <<>>) =>
            /\ response.status = 200
            /\ Len(response.results) = Len(request)
            /\ \A i \in 1..Len(request) : response.results[i].filename = request[i]
    /\ mode = "cli" => pc # "crashed"

\* a coroutine whose exiftool write has been started and has not returned
WriteInFlight == {"write_spawned", "writing"}

\* C9: in a concurrent batch no two coroutines have a write to the same file
\* in flight, and no coroutine writes a file another coroutine of the batch
\* has tagged.
C9_OneTaskPerFile ==
    mode \in {"auto", "batch_manual"} =>
        /\ \A i, j \in 1..Len(tasks) :
            (i # j /\ tasks[i].pc \in WriteInFlight /\ tasks[j].pc \in WriteInFlight)
                => tasks[i].filename # tasks[j].filename
        /\ \A a, b \in log.written : a.file = b.file => a.who = b.who

\* a setup precondition of the run fails
TrackMissing == ~env.gpx_dir_ok \/ parse_gpx_files(gpx_dir) = <<>>

SetupFails == ~env.photo_dir_ok \/ TrackMissing \/ ~env.exiftool_ok

\* C10: when a setup precondition fails (no photo directory, no gpx
\* directory, no trackpoint, no exiftool) the run writes no GPS and moves no
\* file; the CLI stops before its first metadata read, and auto-geotag with
\* a failing track test creates no coroutine.
C10_FailFast ==
    (mode \in {"cli", "auto"} /\ SetupFails) =>
        /\ log.written = {}
        /\ log.moves = {}
        /\ ~log.mkdir
        /\ mode = "cli" =>
            /\ log.metas = {}
            /\ pc \in {"start", "check_exiftool", "parse_gpx", "exit_no_photo_dir",
                       "exit_no_gpx_dir", "exit_no_exiftool", "exit_no_trackpoints"}
        /\ (mode = "auto" /\ TrackMissing) => tasks = <<>>

\* a CLI run without dry_run that stopped on an empty timeline although a
\* photo with a time and without GPS was waiting and the tool was installed
C10_Witness ==
    /\ mode = "cli"
    /\ pc = "exit_no_trackpoints"
    /\ env.exiftool_ok
    /\ ~env.dry_run
    /\ DOMAIN gpx_dir # {}
    /\ \E n \in PhotoNames :
        /\ disk[n].where = "photo_dir"
        /\ disk[n].info.CreateDate # None
        /\ disk[n].info.GPSLatitude = None

\* what a scan says of each photo: its outcome and, when matched, the position
ScanOutcome(photos) ==
    [i \in 1..Len(photos) |->
        [filename |-> photos[i].filename,
         status   |-> photos[i].status,
         position |-> IF photos[i].status = "matched"
                      THEN [lat |-> photos[i].matched_lat, lon |-> photos[i].matched_lon,
                            ele |-> photos[i].matched_ele]
                      ELSE None]]

\* the files that carry GPS now
HasGpsNow ==
    { n \in PhotoNames : disk[n].info.GPSLatitude # None /\ disk[n].info.GPSLongitude # None }

\* scan makes no GPS write, creates no directory and moves no file, and the
\* files carry GPS exactly where they did at the start or where a
\* manual-geotag request has written it meanwhile
ScanReadOnly ==
    /\ log.write_calls = {} /\ log.written = {}
    /\ log.moves = {} /\ ~log.mkdir
    /\ HasGpsNow = log.had_gps \cup log.manual
    /\ \A n \in PhotoNames : disk[n].where # "no_gps"

\* no request but the scans has changed a file since the run began (the
\* track directory and max_gap never change in a run)
DirectoriesUnmodified == log.manual = {}

\* in every read of the scan exiftool ran and printed the fields of the file
ToolAnswered(scan) == \A i \in 1..Len(scan.seen) : scan.seen[i] # None

----------------------------------------------------------------------------
(* Claims about the metadata reads, checked under SpecRead *)

ReadCallReturned == mode = "read" /\ pc \in {"sync_returned", "async_returned"}

\* the failure points of a read: the tool gave no JSON object (it did not
\* start, exited non-zero, printed malformed or empty output), or a GPS
\* field or the date of the object cannot be parsed
ReadFailurePoint(seen) ==
    \/ seen = None
    \/ seen.GPSLatitude = Garbled
    \/ seen.GPSLongitude = Garbled
    \/ LET date_str == IF seen.DateTimeOriginal # None
                       THEN seen.DateTimeOriginal ELSE seen.CreateDate
       IN  date_str # None /\ date_str.kind = "unparseable"

\* C12: a metadata read returns the all-absent record at every failure
\* point, and a returned record never has has_gps true with lat or lon
\* absent.
C12_ReadFailureAllAbsent ==
    ReadCallReturned =>
        LET meta == tasks[1].meta
        IN  /\ ReadFailurePoint(tasks[1].seen) => meta = AllAbsent
            /\ meta.has_gps => (meta.lat # None /\ meta.lon # None)

----------------------------------------------------------------------------
(* Claims about the command line run, checked under Spec *)

\* the class the loop of main gives a photo from one read of its metadata,
\* before any write
CliMatchClass(run, tps, gap) ==
    LET meta == get_photo_metadata(run)
    IN  IF meta.has_gps THEN "already_gps"
        ELSE IF meta.time = None THEN "no_datetime"
        ELSE IF interpolate_gps(tps, fromisoformat(meta.time), gap) = None THEN "no_match"
        ELSE "matched"

\* a dry run has called no write, made no directory, moved no file, and the
\* files are as they were
DryRunNoEffect ==
    (mode = "cli" /\ env.dry_run) =>
        /\ log.write_calls = {} /\ log.written = {}
        /\ ~log.mkdir /\ log.moves = {}
        /\ HasGpsNow = log.had_gps
        /\ \A n \in PhotoNames : disk[n].where # "no_gps"

\* every completed iteration of the loop, dry run or not, counts the photo
\* in the class of its read and lists it for no_gps exactly when it has no
\* time or no match; a matched photo counts as tagged (in a real run as
\* tagged or, when the write returns False, as an error)
CliStepClassifies ==
    (mode = "cli" /\ pc = "loop" /\ cli'.i = cli.i + 1) =>
        LET filename == cli.image_files[cli.i]
        IN  \E run \in SyncReadRuns(disk[filename].info) :
            LET class == CliMatchClass(run, trackpoints, max_gap)
            IN  /\ cli'.stats \in
                        IF class # "matched" THEN {Bump(cli.stats, class)}
                        ELSE IF env.dry_run THEN {Bump(cli.stats, "tagged")}
                        ELSE {Bump(cli.stats, "tagged"), Bump(cli.stats, "errors")}
                /\ cli'.no_gps_files =
                        IF class \in {"no_datetime", "no_match"}
                        THEN Append(cli.no_gps_files, filename)
                        ELSE cli.no_gps_files

\* C13: a CLI run with --dry-run modifies no file (no GPS write is called,
\* the no_gps directory is not made, no photo is moved), and its loop puts
\* every photo in the class a real run puts it in.
C13_DryRunModifiesNothing == []DryRunNoEffect /\ [][CliStepClassifies]_vars

\* a finished dry run that counted one photo as tagged and listed another
\* one for no_gps, with both files still in the photo directory
C13_Witness ==
    /\ mode = "cli" /\ env.dry_run /\ pc = "done"
    /\ cli.stats.tagged = 1
    /\ cli.stats.no_datetime + cli.stats.no_match = 1
    /\ \A n \in PhotoNames : disk[n].where = "photo_dir"

----------------------------------------------------------------------------
(* Further claims about interpolate_gps, checked under SpecInterp *)

\* idx of interpolate_gps (0-based) for the timeline and the query at hand
QueryIdx == bisect_left([i \in 1..Len(trackpoints) |-> trackpoints[i].time], photo_time)

\* the call takes the interior branch: a timeline with points, no exact
\* match at idx, 0 < idx < length
InteriorBranch ==
    /\ Len(trackpoints) > 0
    /\ ~(QueryIdx < Len(trackpoints) /\ trackpoints[QueryIdx + 1].time = photo_time)
    /\ QueryIdx # 0
    /\ QueryIdx < Len(trackpoints)

\* C14: in the interior branch before.time < query < after.time strictly,
\* also with duplicated timestamps in the timeline; so total_gap > 0 (the
\* zero-width branch is not taken, nothing is divided by zero), the ratio
\* elapsed / total_gap is strictly between 0 and 1, and the call returns
\* None for a bracket wider than the gap and the point at that ratio
\* otherwise.
C14_InteriorStrict ==
    (InterpReturned /\ InteriorBranch) =>
        LET before    == trackpoints[QueryIdx]
            after     == trackpoints[QueryIdx + 1]
            total_gap == after.time - before.time
            elapsed   == photo_time - before.time
        IN  /\ before.time < photo_time
            /\ photo_time < after.time
            /\ total_gap > 0
            /\ 0 < elapsed /\ elapsed < total_gap
            /\ total_gap > max_gap => interp_result = None
            /\ total_gap <= max_gap =>
                    /\ interp_result # None
                    /\ OnLine(interp_result.lat, before.lat, after.lat, elapsed, total_gap)
                    /\ OnLine(interp_result.lon, before.lon, after.lon, elapsed, total_gap)
                    /\ OnLine(interp_result.ele, before.ele, after.ele, elapsed, total_gap)

\* an interior call on a timeline whose first two points share a timestamp,
\* bracketed by the second of them and a later point
C14_Witness ==
    /\ InterpReturned
    /\ InteriorBranch
    /\ Len(trackpoints) = 3
    /\ trackpoints[1].time = trackpoints[2].time
    /\ trackpoints[1].lat # trackpoints[2].lat
    /\ QueryIdx = 2
    /\ interp_result # None
    /\ interp_result.lat \notin {trackpoints[2].lat, trackpoints[3].lat}

\* the tolerances from max_gap upwards, past every distance of the timeline
WiderGaps == max_gap..(2 * MaxTime + MaxGap + 2)

\* C15: interpolate_gps is monotone in max_gap_seconds: when the call with
\* max_gap returns a position, the call with any larger tolerance on the same
\* timeline and query returns the same position.
C15_GapMonotone ==
    (InterpReturned /\ interp_result # None) =>
        \A wider \in WiderGaps :
            interpolate_gps(trackpoints, photo_time, wider) = interp_result

\* a match found with a tolerance that is just enough: an interpolated
\* position that the next smaller tolerance does not give
C15_Witness ==
    /\ InterpReturned
    /\ InteriorBranch
    /\ interp_result # None
    /\ max_gap < MaxGap
    /\ interpolate_gps(trackpoints, photo_time, max_gap - 1) = None
    /\ interp_result.lat \notin {trackpoints[QueryIdx].lat, trackpoints[QueryIdx + 1].lat}

====
